---------------------------- MODULE Spec2Model ----------------------------
(***************************************************************************)
(* Order Overview Dashboard: the HomePage state (filters, sort, active     *)
(* preset), the PresetManager state (presets, name), the OrderTable state  *)
(* (page) and the browser's localStorage, with one action per handler.     *)
(*                                                                         *)
(* Strings that the code only compares are TLA+ strings.  Strings that the *)
(* code takes apart (preset names: trim; days labels: replace, parseInt)   *)
(* are sequences of one-character strings.  A nullable value is a sequence *)
(* of length at most one: <<>> is null / an absent key, <<v>> is v.        *)
(***************************************************************************)
EXTENDS Integers, Sequences, FiniteSets, TLC

(***************************************************************************)
(* The dataset (orders.json is an input of the program, not part of it):   *)
(* NumOrders orders whose fields cycle through small vocabularies.         *)
(***************************************************************************)
NumOrders == 16

StatusVocab == <<"Open Order", "QC", "Delivered", "On Hold">>

TypeVocab == <<"Sample", "Order">>

CustomerVocab == <<"Acme", "Globex">>

DaysVocab == <<0, 4, 5, 10, 14, 15, 29, 30, 60, 75>>

OrderAt(i) ==
  [ oid            |-> 1000 + i,
    statusLeft     |-> StatusVocab[(i % 4) + 1],
    statusRight    |-> StatusVocab[((i \div 4) % 4) + 1],
    type           |-> TypeVocab[(i % 2) + 1],
    lock           |-> IF i % 3 = 0 THEN "" ELSE "Locked",
    customer       |-> CustomerVocab[((i \div 2) % 2) + 1],
    daysSinceOrder |-> DaysVocab[(i % 10) + 1],
    model          |-> "M1",
    designer       |-> "Ann" ]

allOrders == [i \in 1..NumOrders |-> OrderAt(i)]

(***************************************************************************)
(* Sequence helpers standing for the JavaScript array methods used.        *)
(***************************************************************************)
Includes(seq, x) == \E i \in 1..Len(seq) : seq[i] = x

RECURSIVE Dedup(_)
\* Array.from(new Set(seq)): the first occurrence of each value, in order.
Dedup(seq) ==
  IF seq = <<>> THEN <<>>
  ELSE LET rest == Dedup(SubSeq(seq, 1, Len(seq) - 1))
           x    == seq[Len(seq)]
       IN  IF Includes(rest, x) THEN rest ELSE Append(rest, x)

\* seq.filter(Boolean) on strings: the empty string is falsy.
FilterTruthy(seq) == SelectSeq(seq, LAMBDA x : x /= "")

\* seq.filter(x => x !== v)
Without(seq, v) == SelectSeq(seq, LAMBDA x : x /= v)

RECURSIVE FlatStatuses(_)
\* allOrders.flatMap(o => [o.statusLeft, o.statusRight]) on the first n orders
FlatStatuses(n) ==
  IF n = 0 THEN <<>>
  ELSE FlatStatuses(n - 1) \o <<allOrders[n].statusLeft, allOrders[n].statusRight>>

getUnique(key) ==
  FilterTruthy(Dedup([i \in 1..NumOrders |-> allOrders[i][key]]))

DAYS_FILTER_OPTIONS ==
  << <<"<", "5">>, <<"<", "1", "5">>, <<"<", "3", "0">>, <<"<", "6", "0">> >>

uniqueValues ==
  [ status   |-> Dedup(FlatStatuses(NumOrders)),
    type     |-> getUnique("type"),
    lock     |-> getUnique("lock"),
    customer |-> getUnique("customer"),
    model    |-> getUnique("model"),
    designer |-> getUnique("designer"),
    days     |-> <<>> ]

FilterKeys == {"status", "type", "lock", "customer", "model", "designer", "days"}

defaultFilterState == [k \in FilterKeys |-> <<>>]

getOptionsForKey(key) ==
  IF key = "days" THEN DAYS_FILTER_OPTIONS ELSE uniqueValues[key]


(***************************************************************************)
(* matchDays (page.tsx): f.replace("<", "") and parseInt(_, 10).           *)
(***************************************************************************)
Digits == <<"0", "1", "2", "3", "4", "5", "6", "7", "8", "9">>

IsDigit(c) == Includes(Digits, c)

DigitVal(c) == (CHOOSE i \in 1..10 : Digits[i] = c) - 1

IsSpace(c) == c \in {" ", "\t"}

RECURSIVE ReplaceFirst(_, _)
\* s.replace(c, ""): the first occurrence of c removed
ReplaceFirst(s, c) ==
  IF s = <<>> THEN <<>>
  ELSE IF Head(s) = c THEN Tail(s)
  ELSE <<Head(s)>> \o ReplaceFirst(Tail(s), c)

RECURSIVE SkipSpaces(_)
SkipSpaces(s) ==
  IF s /= <<>> /\ IsSpace(Head(s)) THEN SkipSpaces(Tail(s)) ELSE s

RECURSIVE LeadingDigits(_, _)
\* the value of the longest run of digits s starts with, from acc; <<>> when
\* s starts with none and acc is <<>>
LeadingDigits(s, acc) ==
  IF s /= <<>> /\ IsDigit(Head(s))
    THEN LeadingDigits(Tail(s),
           <<(IF acc = <<>> THEN 0 ELSE acc[1]) * 10 + DigitVal(Head(s))>>)
    ELSE acc

\* parseInt(s, 10): <<n>>, or <<>> for NaN
ParseInt(s) ==
  LET t == SkipSpaces(s)
  IN  IF t /= <<>> /\ Head(t) = "-"
        THEN LET m == LeadingDigits(Tail(t), <<>>)
             IN  IF m = <<>> THEN <<>> ELSE <<0 - m[1]>>
      ELSE IF t /= <<>> /\ Head(t) = "+" THEN LeadingDigits(Tail(t), <<>>)
      ELSE LeadingDigits(t, <<>>)

matchDays(value, selected) ==
  IF Len(selected) = 0 THEN TRUE
  ELSE \E i \in 1..Len(selected) :
         LET threshold == ParseInt(ReplaceFirst(selected[i], "<"))
         IN  threshold /= <<>> /\ value < threshold[1]

(***************************************************************************)
(* filteredOrders (page.tsx)                                               *)
(***************************************************************************)
\* the status branch looking at statusLeft only
MatchesFieldLeftOnly(order, key, selected) ==
  IF Len(selected) = 0 THEN TRUE
  ELSE IF key = "days" THEN matchDays(order.daysSinceOrder, selected)
  ELSE IF key = "status" THEN Includes(selected, order.statusLeft)
  ELSE Includes(selected, order[key])

\* the status branch asking for both statuses to be selected
MatchesFieldBothSides(order, key, selected) ==
  IF Len(selected) = 0 THEN TRUE
  ELSE IF key = "days" THEN matchDays(order.daysSinceOrder, selected)
  ELSE IF key = "status"
    THEN Includes(selected, order.statusLeft) /\ Includes(selected, order.statusRight)
  ELSE Includes(selected, order[key])

MatchesField(order, key, selected) ==
  IF Len(selected) = 0 THEN TRUE
  ELSE IF key = "days" THEN matchDays(order.daysSinceOrder, selected)
  ELSE IF key = "status"
    THEN Includes(selected, order.statusLeft) \/ Includes(selected, order.statusRight)
  ELSE Includes(selected, order[key])

filteredOrders(fs) ==
  SelectSeq(allOrders,
            LAMBDA order : \A key \in DOMAIN fs : MatchesField(order, key, fs[key]))

(***************************************************************************)
(* HomePage: the sort of the filtered orders                               *)
(***************************************************************************)
statusPriority ==
  <<"Open Order", "Printing", "Drying", "QC", "Ready for Packaging", "Delivered">>

\* a variant of indexOf that counts an absent element behind the last one
indexOfAbsentLast(seq, x) ==
  IF \E i \in 1..Len(seq) : seq[i] = x
    THEN (CHOOSE i \in 1..Len(seq) : seq[i] = x /\ \A j \in 1..(i - 1) : seq[j] /= x) - 1
    ELSE Len(seq)

\* Array.prototype.indexOf: the 0-based index of the first x, -1 when absent
indexOf(seq, x) ==
  IF \E i \in 1..Len(seq) : seq[i] = x
    THEN (CHOOSE i \in 1..Len(seq) : seq[i] = x /\ \A j \in 1..(i - 1) : seq[j] /= x) - 1
    ELSE -1

\* the strings of the orders in the order of < on strings (by UTF-16 code unit)
StringOrder ==
  <<"", "Acme", "Ann", "Delivered", "Globex", "Locked", "M1", "On Hold",
    "Open Order", "Order", "QC", "Sample">>

StringLess(a, b) == indexOf(StringOrder, a) < indexOf(StringOrder, b)

\* the sort keys whose values are numbers
NumericKeys == {"oid", "daysSinceOrder", "status"}

\* aValue / bValue of the comparator
SortValue(order, key) ==
  IF key = "daysSinceOrder" THEN order.daysSinceOrder
  ELSE IF key = "status" THEN indexOf(statusPriority, order.statusLeft)
  ELSE order[key]

\* aValue < bValue
ValueLess(key, aValue, bValue) ==
  IF key \in NumericKeys THEN aValue < bValue ELSE StringLess(aValue, bValue)

\* a variant of the comparator that puts a before b when their values are equal
compareTiesFirst(a, b, key, dir) ==
  LET aValue == SortValue(a, key)
      bValue == SortValue(b, key)
  IN  IF ValueLess(key, aValue, bValue) THEN (IF dir = "asc" THEN -1 ELSE 1)
      ELSE IF ValueLess(key, bValue, aValue) THEN (IF dir = "asc" THEN 1 ELSE -1)
      ELSE -1

\* the comparator handed to sort
compare(a, b, key, dir) ==
  LET aValue == SortValue(a, key)
      bValue == SortValue(b, key)
  IN  IF ValueLess(key, aValue, bValue) THEN (IF dir = "asc" THEN -1 ELSE 1)
      ELSE IF ValueLess(key, bValue, aValue) THEN (IF dir = "asc" THEN 1 ELSE -1)
      ELSE 0

RECURSIVE BinaryPosition(_, _, _, _, _, _)
\* where the pivot goes in the sorted front: behind every element it does not
\* precede (0-based, searched between left and right)
BinaryPosition(sorted, pivot, left, right, key, dir) ==
  IF left >= right THEN left
  ELSE LET mid == left + ((right - left) \div 2)
       IN  IF compare(pivot, sorted[mid + 1], key, dir) < 0
             THEN BinaryPosition(sorted, pivot, left, mid, key, dir)
             ELSE BinaryPosition(sorted, pivot, mid + 1, right, key, dir)

RECURSIVE SortFrom(_, _, _, _)
SortFrom(sorted, rest, key, dir) ==
  IF rest = <<>> THEN sorted
  ELSE LET p == BinaryPosition(sorted, Head(rest), 0, Len(sorted), key, dir)
       IN  SortFrom(SubSeq(sorted, 1, p) \o <<Head(rest)>>
                      \o SubSeq(sorted, p + 1, Len(sorted)),
                    Tail(rest), key, dir)

\* Array.prototype.sort with the comparator, on a copy: a stable sort (binary
\* insertion, as the engine sorts a short array)
ArraySort(seq, key, dir) == SortFrom(<<>>, seq, key, dir)

sortedAndFilteredOrders(fs, key, dir) == ArraySort(filteredOrders(fs), key, dir)

(***************************************************************************)
(* OrderTable pagination                                                   *)
(***************************************************************************)
rowsPerPage == 10

Min(a, b) == IF a < b THEN a ELSE b

\* data.slice(from, to) with 0 <= from, to
Slice(data, from, to) == SubSeq(data, from + 1, Min(to, Len(data)))

\* Math.ceil(data.length / rowsPerPage)
pages(data) == (Len(data) + rowsPerPage - 1) \div rowsPerPage

paginatedData(data, p) == Slice(data, (p - 1) * rowsPerPage, p * rowsPerPage)

(***************************************************************************)
(* State                                                                   *)
(***************************************************************************)
VARIABLES
  phase,             \* "unmounted" | "running" | "crashed" (an uncaught error)
  filters,           \* HomePage: FilterState
  sortKey,           \* HomePage
  sortDirection,     \* HomePage
  activePresetName,  \* HomePage: <<>> (null) or <<name>>
  presets,           \* PresetManager: sequence of Preset
  name,              \* PresetManager: the preset name input
  page,              \* OrderTable
  store,             \* localStorage
  lastSaved,         \* history: per name, what the last save under it held
  lastDelete,        \* history: <<>>, or <<d>> when deletePreset ran last
  beforeClose,       \* history: <<>>, or <<s>>: the session the last Close ended,
                     \*   until the first step after the Startup that follows
  pgData, pgPage, pgPages, pgItems,   \* the pagination of a sequence
  qFilters, qRan, qResult,            \* one run of the filter
  qSortKey, qSortDirection,           \* the sort of the runs of the query
  qOutputs                            \* what each run of the query returned

appVars == <<phase, filters, sortKey, sortDirection, activePresetName,
             presets, name, page, store, lastSaved, lastDelete, beforeClose>>

pgVars == <<pgData, pgPage, pgPages, pgItems>>

qVars == <<qFilters, qRan, qResult, qSortKey, qSortDirection, qOutputs>>

vars == <<appVars, pgVars, qVars>>

(***************************************************************************)
(* Preset names the user types, and trim()                                 *)
(***************************************************************************)
NameInputs == { <<>>, <<" ">>, <<"A">>, <<"B">> }

RECURSIVE TrimEnd(_)
TrimEnd(s) ==
  IF s /= <<>> /\ IsSpace(s[Len(s)]) THEN TrimEnd(SubSeq(s, 1, Len(s) - 1)) ELSE s

\* no trim: only the empty name is blank
TrimNothing(s) == s

Trim(s) == TrimEnd(SkipSpaces(s))

(***************************************************************************)
(* localStorage.  A key holds <<>> (absent) or <<value>>.  The values of   *)
(* 'order-presets' and 'order-filters' are JSON texts: a text is either    *)
(* the serialisation of a value or unparsable.  JSON.stringify of a        *)
(* FilterState or a Preset list (plain objects, arrays and strings only)   *)
(* keeps every field, so the text is modelled by the value it denotes.     *)
(***************************************************************************)
JSONStringify(v) == [parsable |-> TRUE, val |-> v]

CorruptText == [parsable |-> FALSE, val |-> <<>>]

\* JSON.parse(text) throws on an unparsable text
ParseThrows(text) == ~text.parsable

JSONParse(text) == text.val

EmptyStore ==
  [ presets |-> <<>>, active |-> <<>>, filters |-> <<>>,
    sortKey |-> <<>>, sortDirection |-> <<>> ]

(***************************************************************************)
(* HomePage effects                                                        *)
(***************************************************************************)
StringFields ==
  {"statusLeft", "statusRight", "type", "lock", "customer", "model", "designer"}

validKeys == {"oid", "daysSinceOrder", "status"} \cup StringFields

\* all.find(p => p.name === n): <<>> or <<the first preset named n>>
FindPreset(all, n) ==
  LET hits == SelectSeq(all, LAMBDA p : p.name = n)
  IN  IF hits = <<>> THEN <<>> ELSE <<hits[1]>>

InitialSession ==
  [ filters |-> defaultFilterState, sortKey |-> "oid", sortDirection |-> "asc",
    activePresetName |-> <<>> ]

\* the fallback of the load effect: the previous session's keys
LoadPrevious(st) ==
  IF st.filters /= <<>> /\ ParseThrows(st.filters[1])
    THEN InitialSession                                      \* caught
    ELSE [ filters |-> IF st.filters /= <<>> THEN JSONParse(st.filters[1])
                       ELSE defaultFilterState,
           sortKey |-> IF st.sortKey /= <<>> /\ st.sortKey[1] \in validKeys
                       THEN st.sortKey[1] ELSE "oid",
           sortDirection |->
                       IF st.sortDirection /= <<>> /\ st.sortDirection[1] \in {"asc", "desc"}
                       THEN st.sortDirection[1] ELSE "asc",
           activePresetName |-> <<>> ]

\* a load effect that reads the previous session's keys only
LoadSessionPreviousOnly(st) == LoadPrevious(st)

\* the load effect: the state HomePage holds once it has run
LoadSession(st) ==
  IF st.presets /= <<>> /\ st.active /= <<>>
    THEN IF ParseThrows(st.presets[1])
           THEN InitialSession                               \* caught
           ELSE LET active == FindPreset(JSONParse(st.presets[1]), st.active[1])
                IN  IF active /= <<>>
                      THEN [ filters |-> active[1].filters,
                             sortKey |-> active[1].sortKey,
                             sortDirection |-> active[1].sortDirection,
                             activePresetName |-> <<active[1].name>> ]
                      ELSE LoadPrevious(st)
    ELSE LoadPrevious(st)

\* the save effect writing 'order-filters' only
SaveSessionFiltersOnly(st, f, k, d) ==
  [st EXCEPT !.filters = <<JSONStringify(f)>>]

\* the save effect
SaveSession(st, f, k, d) ==
  [st EXCEPT !.filters = <<JSONStringify(f)>>,
             !.sortKey = <<k>>,
             !.sortDirection = <<d>>]

(***************************************************************************)
(* The user's inputs the model draws from                                  *)
(***************************************************************************)
\* the filter options clicked
ToggleInputs == { <<"lock", "Locked">> }

\* the columns whose 'Select all' and 'Clear' buttons are pressed
SelectKeys == {"lock"}

\* the columns whose sort button is clicked
SortColumns == {"status"}

Running == phase = "running"

(***************************************************************************)
(* OrderTable handlers.  Every handler that sets filters, sortKey or       *)
(* sortDirection is followed by HomePage's save effect.                    *)
(***************************************************************************)
ToggledSelection(selected, option) ==
  LET current == Dedup(selected)
  IN  IF Includes(current, option) THEN Without(current, option)
      ELSE Append(current, option)

handleToggleOption(key, option) ==
  /\ Running
  /\ beforeClose' = <<>>
  /\ lastDelete' = <<>>
  /\ filters' = [filters EXCEPT ![key] = ToggledSelection(filters[key], option)]
  /\ page' = 1
  /\ store' = SaveSession(store, filters', sortKey, sortDirection)
  /\ UNCHANGED <<phase, sortKey, sortDirection, activePresetName, presets,
                 name, lastSaved>>
  /\ UNCHANGED <<pgVars, qVars>>

selectAll(key) ==
  /\ Running
  /\ beforeClose' = <<>>
  /\ lastDelete' = <<>>
  /\ filters' = [filters EXCEPT ![key] = getOptionsForKey(key)]
  /\ page' = 1
  /\ store' = SaveSession(store, filters', sortKey, sortDirection)
  /\ UNCHANGED <<phase, sortKey, sortDirection, activePresetName, presets,
                 name, lastSaved>>
  /\ UNCHANGED <<pgVars, qVars>>

clearFilter(key) ==
  /\ Running
  /\ beforeClose' = <<>>
  /\ lastDelete' = <<>>
  /\ filters' = [filters EXCEPT ![key] = <<>>]
  /\ page' = 1
  /\ store' = SaveSession(store, filters', sortKey, sortDirection)
  /\ UNCHANGED <<phase, sortKey, sortDirection, activePresetName, presets,
                 name, lastSaved>>
  /\ UNCHANGED <<pgVars, qVars>>

handleAllSelect ==
  /\ Running
  /\ beforeClose' = <<>>
  /\ lastDelete' = <<>>
  /\ filters' = [k \in FilterKeys |-> getOptionsForKey(k)]
  /\ page' = 1
  /\ store' = SaveSession(store, filters', sortKey, sortDirection)
  /\ UNCHANGED <<phase, sortKey, sortDirection, activePresetName, presets,
                 name, lastSaved>>
  /\ UNCHANGED <<pgVars, qVars>>

\* the 'Clear Selection' button
ClearSelection ==
  /\ Running
  /\ beforeClose' = <<>>
  /\ lastDelete' = <<>>
  /\ filters' = [k \in FilterKeys |-> <<>>]
  /\ activePresetName' = <<>>
  /\ store' = [SaveSession(store, filters', sortKey, sortDirection)
                 EXCEPT !.active = <<>>]
  /\ UNCHANGED <<phase, sortKey, sortDirection, presets, name, page, lastSaved>>
  /\ UNCHANGED <<pgVars, qVars>>

\* a column's sort button
SortClick(col) ==
  LET sortableKey == IF col = "days" THEN "daysSinceOrder" ELSE col
  IN  /\ Running
      /\ beforeClose' = <<>>
      /\ lastDelete' = <<>>
      /\ IF sortKey = sortableKey
           THEN /\ sortDirection' = IF sortDirection = "asc" THEN "desc" ELSE "asc"
                /\ sortKey' = sortKey
           ELSE /\ sortKey' = sortableKey
                /\ sortDirection' = "asc"
      /\ store' = SaveSession(store, filters, sortKey', sortDirection')
      /\ UNCHANGED <<phase, filters, activePresetName, presets, name, page,
                     lastSaved>>
      /\ UNCHANGED <<pgVars, qVars>>

\* the Pagination control offers the pages 1..pages
SetPage(p) ==
  /\ Running
  /\ beforeClose' = <<>>
  /\ lastDelete' = <<>>
  /\ p \in 1..pages(filteredOrders(filters))
  /\ p /= page
  /\ page' = p
  /\ UNCHANGED <<phase, filters, sortKey, sortDirection, activePresetName,
                 presets, name, store, lastSaved>>
  /\ UNCHANGED <<pgVars, qVars>>

(***************************************************************************)
(* PresetManager handlers                                                  *)
(***************************************************************************)
\* savePreset appending without removing the preset of the same name
savePresetAppends(n) ==
  /\ Running
  /\ beforeClose' = <<>>
  /\ lastDelete' = <<>>
  /\ IF Trim(n) = <<>>
       THEN /\ name' = n
            /\ UNCHANGED <<presets, store, lastSaved>>
       ELSE LET newPreset == [ name |-> n, filters |-> filters,
                               sortKey |-> sortKey, sortDirection |-> sortDirection ]
                updated == Append(presets, newPreset)
            IN  /\ presets' = updated
                /\ store' = [store EXCEPT !.presets = <<JSONStringify(updated)>>]
                /\ name' = <<>>
                /\ lastSaved' = [lastSaved EXCEPT ![n] =
                     << [ filters |-> filters, sortKey |-> sortKey,
                          sortDirection |-> sortDirection ] >>]
  /\ UNCHANGED <<phase, filters, sortKey, sortDirection, activePresetName, page>>
  /\ UNCHANGED <<pgVars, qVars>>

\* the name is typed into the input, then 'Save Current Filters' is pressed
savePreset(n) ==
  /\ Running
  /\ beforeClose' = <<>>
  /\ lastDelete' = <<>>
  /\ IF Trim(n) = <<>>
       THEN /\ name' = n
            /\ UNCHANGED <<presets, store, lastSaved>>
       ELSE LET newPreset == [ name |-> n, filters |-> filters,
                               sortKey |-> sortKey, sortDirection |-> sortDirection ]
                updated == Append(SelectSeq(presets, LAMBDA q : q.name /= n), newPreset)
            IN  /\ presets' = updated
                /\ store' = [store EXCEPT !.presets = <<JSONStringify(updated)>>]
                /\ name' = <<>>
                /\ lastSaved' = [lastSaved EXCEPT ![n] =
                     << [ filters |-> filters, sortKey |-> sortKey,
                          sortDirection |-> sortDirection ] >>]
  /\ UNCHANGED <<phase, filters, sortKey, sortDirection, activePresetName, page>>
  /\ UNCHANGED <<pgVars, qVars>>

\* loadPreset without its call of setSortDirection
loadPresetKeepsDirection(i) ==
  /\ Running
  /\ beforeClose' = <<>>
  /\ lastDelete' = <<>>
  /\ i \in 1..Len(presets)
  /\ LET preset == presets[i]
     IN  /\ filters' = preset.filters
         /\ sortKey' = preset.sortKey
         /\ activePresetName' = <<preset.name>>
         /\ store' = [SaveSession(store, filters', sortKey', sortDirection)
                        EXCEPT !.active = <<preset.name>>]
  /\ UNCHANGED <<phase, sortDirection, presets, name, page, lastSaved>>
  /\ UNCHANGED <<pgVars, qVars>>

\* the 'Load' button of the i-th listed preset
loadPreset(i) ==
  /\ Running
  /\ beforeClose' = <<>>
  /\ lastDelete' = <<>>
  /\ i \in 1..Len(presets)
  /\ LET preset == presets[i]
     IN  /\ filters' = preset.filters
         /\ sortKey' = preset.sortKey
         /\ sortDirection' = preset.sortDirection
         /\ activePresetName' = <<preset.name>>
         /\ store' = [SaveSession(store, filters', sortKey', sortDirection')
                        EXCEPT !.active = <<preset.name>>]
  /\ UNCHANGED <<phase, presets, name, page, lastSaved>>
  /\ UNCHANGED <<pgVars, qVars>>

\* deletePreset without its reading of 'active-order-preset': the pointer is kept
deletePresetKeepsPointer(n) ==
  /\ Running
  /\ beforeClose' = <<>>
  /\ lastDelete' = << [ name |-> n, wasActive |-> (activePresetName = <<n>>),
                       listed |-> (FindPreset(presets, n) /= <<>>) ] >>
  /\ LET updated == SelectSeq(presets, LAMBDA q : q.name /= n)
     IN  /\ presets' = updated
         /\ store' = [store EXCEPT !.presets = <<JSONStringify(updated)>>]
  /\ lastSaved' = [lastSaved EXCEPT ![n] = <<>>]
  /\ UNCHANGED <<phase, filters, sortKey, sortDirection, activePresetName, name, page>>
  /\ UNCHANGED <<pgVars, qVars>>

\* deletePreset clearing the pointer whatever preset is deleted
deletePresetAlwaysClears(n) ==
  /\ Running
  /\ beforeClose' = <<>>
  /\ lastDelete' = << [ name |-> n, wasActive |-> (activePresetName = <<n>>),
                       listed |-> (FindPreset(presets, n) /= <<>>) ] >>
  /\ LET updated == SelectSeq(presets, LAMBDA q : q.name /= n)
     IN  /\ presets' = updated
         /\ store' = [store EXCEPT !.presets = <<JSONStringify(updated)>>,
                                   !.active = <<>>]
  /\ activePresetName' = <<>>
  /\ lastSaved' = [lastSaved EXCEPT ![n] = <<>>]
  /\ UNCHANGED <<phase, filters, sortKey, sortDirection, name, page>>
  /\ UNCHANGED <<pgVars, qVars>>

deletePreset(n) ==
  /\ Running
  /\ beforeClose' = <<>>
  /\ lastDelete' = << [ name |-> n, wasActive |-> (activePresetName = <<n>>),
                       listed |-> (FindPreset(presets, n) /= <<>>) ] >>
  /\ LET updated == SelectSeq(presets, LAMBDA q : q.name /= n)
         st      == [store EXCEPT !.presets = <<JSONStringify(updated)>>]
     IN  /\ presets' = updated
         /\ IF store.active = <<n>>
              THEN /\ store' = [st EXCEPT !.active = <<>>]
                   /\ activePresetName' = <<>>
              ELSE /\ store' = st
                   /\ UNCHANGED activePresetName
  /\ lastSaved' = [lastSaved EXCEPT ![n] = <<>>]
  /\ UNCHANGED <<phase, filters, sortKey, sortDirection, name, page>>
  /\ UNCHANGED <<pgVars, qVars>>

(***************************************************************************)
(* Opening and closing the page                                            *)
(***************************************************************************)
\* HomePage mounts: the load effect and the save effect run on the initial
\* state; the loaded state is rendered, PresetManager and OrderTable mount,
\* PresetManager's load effect runs, and the save effect runs again.  An
\* error thrown by PresetManager's effect is uncaught; the second save
\* effect, of the same commit, may or may not have run by then.
Startup ==
  /\ phase = "unmounted"
  /\ UNCHANGED beforeClose
  /\ lastDelete' = <<>>
  /\ LET s   == LoadSession(store)
         st1 == SaveSession(store, InitialSession.filters, InitialSession.sortKey,
                            InitialSession.sortDirection)
         st2 == SaveSession(st1, s.filters, s.sortKey, s.sortDirection)
     IN  /\ filters' = s.filters
         /\ sortKey' = s.sortKey
         /\ sortDirection' = s.sortDirection
         /\ activePresetName' = s.activePresetName
         /\ IF store.presets /= <<>> /\ ParseThrows(store.presets[1])
              THEN /\ phase' = "crashed"
                   /\ presets' = <<>>
                   /\ store' \in {st1, st2}
              ELSE /\ phase' = "running"
                   /\ presets' = IF store.presets /= <<>>
                                 THEN JSONParse(store.presets[1]) ELSE <<>>
                   /\ store' = st2
  /\ name' = <<>>
  /\ page' = 1
  /\ UNCHANGED lastSaved
  /\ UNCHANGED <<pgVars, qVars>>

\* the tab is closed or reloaded: the components' state is gone, localStorage stays
Close ==
  /\ phase \in {"running", "crashed"}
  /\ beforeClose' = << [ filters |-> filters, sortKey |-> sortKey,
                         sortDirection |-> sortDirection,
                         activePresetName |-> activePresetName,
                         presets |-> presets ] >>
  /\ lastDelete' = <<>>
  /\ phase' = "unmounted"
  /\ filters' = InitialSession.filters
  /\ sortKey' = InitialSession.sortKey
  /\ sortDirection' = InitialSession.sortDirection
  /\ activePresetName' = InitialSession.activePresetName
  /\ presets' = <<>>
  /\ name' = <<>>
  /\ page' = 1
  /\ UNCHANGED <<store, lastSaved>>
  /\ UNCHANGED <<pgVars, qVars>>

(***************************************************************************)
(* The application: a first visit with an empty localStorage               *)
(***************************************************************************)
AppInit ==
  /\ phase = "unmounted"
  /\ filters = InitialSession.filters
  /\ sortKey = InitialSession.sortKey
  /\ sortDirection = InitialSession.sortDirection
  /\ activePresetName = InitialSession.activePresetName
  /\ presets = <<>>
  /\ name = <<>>
  /\ page = 1
  /\ lastSaved = [n \in NameInputs |-> <<>>]
  /\ lastDelete = <<>>
  /\ beforeClose = <<>>

PgIdle ==
  /\ pgData = <<>>
  /\ pgPage = 1
  /\ pgPages = 0
  /\ pgItems = <<>>

SortIdle ==
  /\ qSortKey = "oid"
  /\ qSortDirection = "asc"
  /\ qOutputs = <<>>

QIdle ==
  /\ qFilters = defaultFilterState
  /\ qRan = FALSE
  /\ qResult = <<>>
  /\ SortIdle

Init ==
  /\ AppInit
  /\ store = EmptyStore
  /\ PgIdle
  /\ QIdle

Next ==
  \/ \E t \in ToggleInputs : handleToggleOption(t[1], t[2])
  \/ \E k \in SelectKeys : selectAll(k)
  \/ \E k \in SelectKeys : clearFilter(k)
  \/ handleAllSelect
  \/ ClearSelection
  \/ \E c \in SortColumns : SortClick(c)
  \/ \E p \in 1..pages(allOrders) : SetPage(p)
  \/ \E n \in NameInputs : savePreset(n)
  \/ \E i \in 1..Cardinality(NameInputs) : loadPreset(i)
  \/ \E n \in NameInputs : deletePreset(n)
  \/ Startup
  \/ Close

Spec == Init /\ [][Next]_vars

(***************************************************************************)
(* The pagination of a sequence of any length (OrderTable's data prop)     *)
(***************************************************************************)
MaxLen == 45

ShowPage(p) ==
  /\ p \in 1..pages(pgData)
  /\ pgPage' = p
  /\ pgPages' = pages(pgData)
  /\ pgItems' = paginatedData(pgData, p)
  /\ UNCHANGED <<pgData, appVars, qVars>>

InitPaginate ==
  /\ AppInit
  /\ store = EmptyStore
  /\ QIdle
  /\ pgData \in {[i \in 1..n |-> i] : n \in 0..MaxLen}
  /\ pgPage = 1
  /\ pgPages = pages(pgData)
  /\ pgItems = paginatedData(pgData, 1)

NextPaginate == \E p \in 1..MaxLen : ShowPage(p)

SpecPaginate == InitPaginate /\ [][NextPaginate]_vars

(***************************************************************************)
(* One run of the filter on any FilterState the filter controls can build  *)
(***************************************************************************)
RECURSIVE Pick(_, _)
\* the elements of seq at the positions in S, in the order of seq
Pick(seq, S) ==
  IF seq = <<>> THEN <<>>
  ELSE LET front == Pick(SubSeq(seq, 1, Len(seq) - 1), S)
       IN  IF Len(seq) \in S THEN Append(front, seq[Len(seq)]) ELSE front

Selections(key) ==
  LET options == getOptionsForKey(key)
  IN  {Pick(options, S) : S \in SUBSET (1..Len(options))}

RunFilter ==
  /\ ~qRan
  /\ qRan' = TRUE
  /\ qResult' = filteredOrders(qFilters)
  /\ UNCHANGED <<qFilters, qSortKey, qSortDirection, qOutputs, appVars, pgVars>>

InitFilter ==
  /\ AppInit
  /\ store = EmptyStore
  /\ PgIdle
  /\ qFilters \in [status : Selections("status"), type : Selections("type"),
                   lock : Selections("lock"), customer : Selections("customer"),
                   model : Selections("model"), designer : Selections("designer"),
                   days : Selections("days")]
  /\ qRan = FALSE
  /\ qResult = <<>>
  /\ SortIdle

NextFilter == RunFilter

SpecFilter == InitFilter /\ [][NextFilter]_vars

(***************************************************************************)
(* One run of the filter on a days selection of any labels: the bucket     *)
(* labels, and labels only a stored FilterState or preset can hold         *)
(***************************************************************************)
MaxLabels == 2

DaysLabelInputs ==
  { <<"<", "5">>, <<"<", "1", "5">>, <<"<", "3", "0">>, <<"<", "6", "0">>,
    <<"<">>, <<"<", "x">>, <<"<", "x", "5">>, <<"<", "5", "x">> }

LabelSeqs(n) == UNION {[1..k -> DaysLabelInputs] : k \in 0..n}

InitDays ==
  /\ AppInit
  /\ store = EmptyStore
  /\ PgIdle
  /\ qFilters \in {[defaultFilterState EXCEPT !.days = sel] : sel \in LabelSeqs(MaxLabels)}
  /\ qRan = FALSE
  /\ qResult = <<>>
  /\ SortIdle

NextDays == RunFilter

SpecDays == InitDays /\ [][NextDays]_vars

(***************************************************************************)
(* Runs of the query (filter, then sort) on one FilterState, sort key and  *)
(* direction                                                               *)
(***************************************************************************)
MaxRuns == 2

\* the sort keys the column headers set
SortKeys ==
  {"oid", "status", "type", "lock", "customer", "daysSinceOrder", "model", "designer"}

QueryFilters ==
  {[defaultFilterState EXCEPT !.status = st, !.lock = lk] :
     st \in Selections("status"), lk \in Selections("lock")}

RunQuery ==
  /\ Len(qOutputs) < MaxRuns
  /\ qRan' = TRUE
  /\ qResult' = filteredOrders(qFilters)
  /\ qOutputs' = Append(qOutputs,
                        sortedAndFilteredOrders(qFilters, qSortKey, qSortDirection))
  /\ UNCHANGED <<qFilters, qSortKey, qSortDirection, appVars, pgVars>>

InitQuery ==
  /\ AppInit
  /\ store = EmptyStore
  /\ PgIdle
  /\ qFilters \in QueryFilters
  /\ qRan = FALSE
  /\ qResult = <<>>
  /\ qSortKey \in SortKeys
  /\ qSortDirection \in {"asc", "desc"}
  /\ qOutputs = <<>>

NextQuery == RunQuery

SpecQuery == InitQuery /\ [][NextQuery]_vars

(***************************************************************************)
(* Opening the page on a localStorage left by anything: an earlier         *)
(* session, another version of the page, the user's own edits              *)
(***************************************************************************)
LockedOnly == [defaultFilterState EXCEPT !.lock = <<"Locked">>]

StoredPresetTexts ==
  { JSONStringify(<<>>),
    JSONStringify(<< [ name |-> <<"A">>, filters |-> LockedOnly,
                       sortKey |-> "status", sortDirection |-> "desc" ] >>),
    CorruptText }

StoredStates ==
  [ presets       : {<<>>} \cup {<<t>> : t \in StoredPresetTexts},
    active        : {<<>>, << <<"A">> >>, << <<"B">> >>},
    filters       : {<<>>, <<JSONStringify(LockedOnly)>>, <<CorruptText>>},
    sortKey       : {<<>>, <<"status">>, <<"bogus">>},
    sortDirection : {<<>>, <<"desc">>, <<"bogus">>} ]

InitStore ==
  /\ AppInit
  /\ store \in StoredStates
  /\ PgIdle
  /\ QIdle

NextStore ==
  \/ Startup
  \/ Close

SpecStore == InitStore /\ [][NextStore]_vars

(***************************************************************************)
(* Properties                                                              *)
(***************************************************************************)
PresetNames(list) == {list[i].name : i \in 1..Len(list)}

\* the preset list the 'order-presets' key holds
StoredPresets ==
  IF store.presets = <<>> \/ ~store.presets[1].parsable THEN <<>>
  ELSE store.presets[1].val

\* C1: the active-preset pointer, displayed and stored, is unset or names a
\* preset of the collection.
C1_ActivePresetListed ==
  /\ Running =>
       (activePresetName = <<>> \/ activePresetName[1] \in PresetNames(presets))
  /\ store.active = <<>> \/ store.active[1] \in PresetNames(StoredPresets)

\* a preset is active, after a deletion of the other one
C1_Witness ==
  /\ Running
  /\ activePresetName = << <<"A">> >>
  /\ store.active = activePresetName
  /\ lastDelete /= <<>> /\ lastDelete[1].listed

\* C2: every step that changes the FilterState while the page is open leaves
\* the current page at 1.
C2_FilterChangeResetsPage ==
  [][(Running /\ phase' = "running" /\ filters' /= filters) => page' = 1]_vars

\* C3: deletePreset(n) clears the pointer (displayed and stored) when n is the
\* active preset, and leaves it as it was otherwise.
C3_DeleteClearsOnlyActive ==
  [][\A n \in NameInputs :
       deletePreset(n) =>
         IF activePresetName = <<n>>
           THEN activePresetName' = <<>> /\ store'.active = <<>>
           ELSE activePresetName' = activePresetName /\ store'.active = store.active
    ]_vars

\* the active preset was just deleted while another one stays listed
C3_Witness ==
  /\ lastDelete /= <<>>
  /\ lastDelete[1].wasActive
  /\ activePresetName = <<>>
  /\ store.active = <<>>
  /\ Len(presets) = 1

\* C4: loading preset X sets filters, sortKey and sortDirection to what the
\* last save under X held.
C4_LoadRestoresSaved ==
  [][\A i \in 1..Cardinality(NameInputs) :
       loadPreset(i) =>
         LET saved == lastSaved[presets[i].name]
         IN  /\ saved /= <<>>
             /\ filters' = saved[1].filters
             /\ sortKey' = saved[1].sortKey
             /\ sortDirection' = saved[1].sortDirection
    ]_vars

\* preset A, saved with a lock filter and the status/desc sort, is loaded
\* while another preset with other contents is listed as well
C4_Witness ==
  /\ Running
  /\ activePresetName = << <<"A">> >>
  /\ lastSaved[<<"A">>] /= <<>>
  /\ filters = lastSaved[<<"A">>][1].filters
  /\ filters.lock /= <<>>
  /\ sortKey = "status" /\ sortDirection = "desc"
  /\ lastSaved[<<"B">>] /= <<>>
  /\ lastSaved[<<"B">>] /= lastSaved[<<"A">>]

NoTwoSameName(list) ==
  \A i, j \in 1..Len(list) : list[i].name = list[j].name => i = j

HoldsLastSave(list) ==
  \A i \in 1..Len(list) :
    lastSaved[list[i].name] =
      << [ filters |-> list[i].filters, sortKey |-> list[i].sortKey,
           sortDirection |-> list[i].sortDirection ] >>

\* C5: no two presets, in memory or persisted, have the same name, and each
\* holds what the most recent save under its name held.
C5_LastWriteWins ==
  /\ NoTwoSameName(StoredPresets)
  /\ HoldsLastSave(StoredPresets)
  /\ Running => presets = StoredPresets

\* A was saved again after B: it is listed once, last
C5_Witness ==
  /\ Running
  /\ Len(presets) = 2
  /\ presets[1].name = <<"B">>
  /\ presets[2].name = <<"A">>
  /\ presets[2].filters /= presets[1].filters
  /\ presets[2].sortKey /= presets[1].sortKey

\* C6: with an unparsable 'order-presets' text, startup ends with the page
\* running on an empty preset list, no error left uncaught.
C6_CorruptPresetsRecovered ==
  (phase /= "unmounted" /\ store.presets /= <<>> /\ ~store.presets[1].parsable)
    => (phase = "running" /\ presets = <<>>)

Blank(n) == \A i \in 1..Len(n) : n[i] \in {" ", "\t"}

\* C7: a save under an empty or whitespace-only name changes neither the
\* preset collection, in memory or persisted, nor the active-preset pointer.
C7_BlankNameChangesNothing ==
  [][\A n \in NameInputs :
       (Blank(n) /\ savePreset(n)) =>
         /\ presets' = presets
         /\ store'.presets = store.presets
         /\ activePresetName' = activePresetName
         /\ store'.active = store.active
    ]_vars

\* a save under " " was refused while presets exist and one is active
C7_Witness ==
  /\ Running
  /\ name = <<" ">>
  /\ Len(presets) = 2
  /\ activePresetName /= <<>>

\* C8: while the page is open, 'order-filters', 'order-sortKey' and
\* 'order-sortDirection' hold the current filters, sort key and direction.
C8_SessionPersisted ==
  Running =>
    /\ store.filters = <<JSONStringify(filters)>>
    /\ JSONParse(store.filters[1]) = filters
    /\ store.sortKey = <<sortKey>>
    /\ store.sortDirection = <<sortDirection>>

\* filters and sort were changed, and the stored keys hold them
C8_Witness ==
  /\ Running
  /\ filters.lock /= <<>>
  /\ filters.status = <<>>
  /\ sortKey = "status"
  /\ sortDirection = "desc"
  /\ store.sortDirection = <<"desc">>
  /\ activePresetName = <<>>
  /\ presets = <<>>

\* the least k with k * s >= n
CeilDiv(n, s) == CHOOSE k \in 0..n : k * s >= n /\ (k = 0 \/ (k - 1) * s < n)

\* C9: totalPages is ceil(n / s), and 1 for the empty sequence, and page p
\* holds the elements (p-1)*s .. min(p*s, n)-1 (counted from 0).
C9_PagesAndWindow ==
  LET n     == Len(pgData)
      first == (pgPage - 1) * rowsPerPage
      last  == Min(pgPage * rowsPerPage, n) - 1
  IN  /\ pgPages = IF n = 0 THEN 1 ELSE CeilDiv(n, rowsPerPage)
      /\ Len(pgItems) = IF last >= first THEN last - first + 1 ELSE 0
      /\ \A j \in 1..Len(pgItems) : pgItems[j] = pgData[first + j]

\* the bucket thresholds of section 3
BucketThreshold(label) ==
  CASE label = <<"<", "5">> -> 5
    [] label = <<"<", "1", "5">> -> 15
    [] label = <<"<", "3", "0">> -> 30
    [] label = <<"<", "6", "0">> -> 60

\* a selected value matches the order under the field's rule
ValueMatches(order, key, v) ==
  CASE key = "status" -> v = order.statusLeft \/ v = order.statusRight
    [] key = "days"   -> order.daysSinceOrder < BucketThreshold(v)
    [] OTHER          -> v = order[key]

OrderPasses(order, fs) ==
  \A key \in FilterKeys :
    fs[key] = <<>> \/ \E j \in 1..Len(fs[key]) : ValueMatches(order, key, fs[key][j])

\* C10: an order is in the filtered result iff every field's selection is
\* empty or has a value matching the order; the all-empty FilterState keeps
\* every order; an order with an empty field value is excluded by any
\* non-empty selection on that field.
C10_FilterIsAndOfOrs ==
  qRan =>
    /\ \A i \in 1..NumOrders :
         Includes(qResult, allOrders[i]) <=> OrderPasses(allOrders[i], qFilters)
    /\ (\A key \in FilterKeys : qFilters[key] = <<>>) => qResult = allOrders
    /\ \A i \in 1..NumOrders :
         \A key \in {"type", "lock", "customer", "model", "designer"} :
           (allOrders[i][key] = "" /\ qFilters[key] /= <<>>)
             => ~Includes(qResult, allOrders[i])

\* a run with selections on status, lock and days that keeps some orders,
\* drops an order with an empty lock and drops a locked one
C10_Witness ==
  /\ qRan
  /\ qFilters.status /= <<>> /\ qFilters.lock /= <<>> /\ Len(qFilters.days) = 2
  /\ qResult /= <<>>
  /\ \E i, j \in 1..NumOrders :
       /\ allOrders[i].lock = "" /\ ~Includes(qResult, allOrders[i])
       /\ allOrders[j].lock /= "" /\ ~Includes(qResult, allOrders[j])

OnlyStatusSelected(fs) ==
  /\ fs.status /= <<>>
  /\ \A key \in FilterKeys \ {"status"} : fs[key] = <<>>

\* C11: with a status selection and every other field empty, an order is in
\* the filtered result iff its statusLeft or its statusRight is selected.
C11_StatusEitherSide ==
  (qRan /\ OnlyStatusSelected(qFilters)) =>
    \A i \in 1..NumOrders :
      Includes(qResult, allOrders[i]) <=>
        \/ \E j \in 1..Len(qFilters.status) : qFilters.status[j] = allOrders[i].statusLeft
        \/ \E j \in 1..Len(qFilters.status) : qFilters.status[j] = allOrders[i].statusRight

\* a one-status selection keeps an order for its statusRight alone, one for
\* its statusLeft alone, and drops one
C11_Witness ==
  /\ qRan
  /\ OnlyStatusSelected(qFilters)
  /\ Len(qFilters.status) = 1
  /\ \E i, j, k \in 1..NumOrders :
       /\ Includes(qResult, allOrders[i])
       /\ allOrders[i].statusLeft /= qFilters.status[1]
       /\ Includes(qResult, allOrders[j])
       /\ allOrders[j].statusRight /= qFilters.status[1]
       /\ ~Includes(qResult, allOrders[k])

\* the text after the label's '<'
LabelSuffix(label) == IF label /= <<>> /\ label[1] = "<" THEN Tail(label) ELSE label

\* a non-empty text of decimal digits
IsNumeric(t) == t /= <<>> /\ \A i \in 1..Len(t) : t[i] \in {Digits[d] : d \in 1..10}

RECURSIVE DecimalValue(_)
DecimalValue(t) ==
  IF t = <<>> THEN 0
  ELSE DecimalValue(SubSeq(t, 1, Len(t) - 1)) * 10
         + (CHOOSE d \in 0..9 : Digits[d + 1] = t[Len(t)])

\* days is below the label's threshold; a label with a non-numeric suffix
\* has no threshold
BelowBucket(days, label) ==
  IsNumeric(LabelSuffix(label)) /\ days < DecimalValue(LabelSuffix(label))

\* C12: with a non-empty days selection an order matches iff its
\* daysSinceOrder is strictly below the threshold of a selected label, and a
\* label whose suffix is not numeric matches no order.
C12_DaysBuckets ==
  (qRan /\ qFilters.days /= <<>>
        /\ \A key \in FilterKeys \ {"days"} : qFilters[key] = <<>>) =>
    \A i \in 1..NumOrders :
      Includes(qResult, allOrders[i]) <=>
        \E j \in 1..Len(qFilters.days) :
          BelowBucket(allOrders[i].daysSinceOrder, qFilters.days[j])

\* the same with the labels that start with digits and go on otherwise
\* ("<5x") left out
C12_ExceptDigitPrefixed ==
  (\A j \in 1..Len(qFilters.days) :
     LET t == LabelSuffix(qFilters.days[j])
     IN  t /= <<>> /\ t[1] \in {Digits[d] : d \in 1..10} => IsNumeric(t))
    => C12_DaysBuckets

\* how often x occurs in seq
Count(seq, x) == Cardinality({i \in 1..Len(seq) : seq[i] = x})

\* the place of the first x in seq
PlaceOf(seq, x) == CHOOSE i \in 1..Len(seq) : seq[i] = x /\ \A j \in 1..(i - 1) : seq[j] /= x

\* what an order is sorted by under a sort key
KeyOf(order, key) ==
  IF key = "daysSinceOrder" THEN <<order.daysSinceOrder>>
  ELSE IF key = "status"
    THEN (IF \E i \in 1..Len(statusPriority) : statusPriority[i] = order.statusLeft
            THEN <<order.statusLeft>> ELSE <<>>)
  ELSE <<order[key]>>

\* C13: every run of the query on the same inputs returns the same sequence;
\* the sequence is a permutation of the filtered orders; and two orders with
\* equal sort-key values keep the relative order they have in the input, in
\* both directions.
C13_QueryDeterministicStable ==
  \A r \in 1..Len(qOutputs) :
    LET out == qOutputs[r]
    IN  /\ out = qOutputs[1]
        /\ Len(out) = Len(qResult)
        /\ \A i \in 1..NumOrders : Count(out, allOrders[i]) = Count(qResult, allOrders[i])
        /\ \A m, n \in 1..Len(qResult) :
             (m < n /\ KeyOf(qResult[m], qSortKey) = KeyOf(qResult[n], qSortKey))
               => PlaceOf(out, qResult[m]) < PlaceOf(out, qResult[n])

C13_Witness ==
  /\ Len(qOutputs) = 2
  /\ qSortDirection = "desc"
  /\ qOutputs[2] /= qResult
  /\ \E m, n \in 1..Len(qResult) :
       m < n /\ KeyOf(qResult[m], qSortKey) = KeyOf(qResult[n], qSortKey)

\* the place of a status in the priority list, -1 for a status not in it
PriorityIndex(status) ==
  CASE status = "Open Order" -> 0
    [] status = "Printing" -> 1
    [] status = "Drying" -> 2
    [] status = "QC" -> 3
    [] status = "Ready for Packaging" -> 4
    [] status = "Delivered" -> 5
    [] OTHER -> -1

\* C14: sorted by 'status', the orders come by the priority index of
\* statusLeft (unrecognized = -1, so first when ascending), descending the
\* inverse; orders of the same statusLeft keep their input order, whatever
\* their statusRight.
C14_StatusPriorityOrder ==
  qSortKey = "status" =>
    \A r \in 1..Len(qOutputs) :
      LET out == qOutputs[r]
      IN  \A m, n \in 1..Len(out) :
            m < n =>
              LET pm == PriorityIndex(out[m].statusLeft)
                  pn == PriorityIndex(out[n].statusLeft)
              IN  \/ IF qSortDirection = "asc" THEN pm < pn ELSE pm > pn
                  \/ pm = pn /\ PlaceOf(qResult, out[m]) < PlaceOf(qResult, out[n])

C14_Witness ==
  /\ qSortKey = "status"
  /\ qSortDirection = "desc"
  /\ Len(qOutputs) >= 1
  /\ \E a, b, c \in 1..Len(qOutputs[1]) :
       /\ a < b /\ b < c
       /\ qOutputs[1][a].statusLeft = "Delivered"
       /\ qOutputs[1][b].statusLeft = "Open Order"
       /\ qOutputs[1][c].statusLeft = "On Hold"
  /\ \E m, n \in 1..Len(qOutputs[1]) :
       /\ qOutputs[1][m].statusLeft = qOutputs[1][n].statusLeft
       /\ qOutputs[1][m].statusRight /= qOutputs[1][n].statusRight

\* the page runs again after a Close, and nothing was done since
Restarted == Running /\ beforeClose /= <<>>

\* C15 as stated: after a restart the filters, sort key and sort direction are
\* those that were current just before it, whether or not a preset is active.
C15_SessionSurvivesRestart ==
  Restarted =>
    /\ filters = beforeClose[1].filters
    /\ sortKey = beforeClose[1].sortKey
    /\ sortDirection = beforeClose[1].sortDirection

\* C15 amended: after a restart, if a preset was active just before it, the
\* filters, sort key and sort direction are those saved in that preset;
\* if none was active, they are those that were current just before it.
C15_RestartRestoresPresetOrSession ==
  Restarted =>
    LET was == beforeClose[1]
    IN  IF was.activePresetName /= <<>>
          THEN \E i \in 1..Len(was.presets) :
                 /\ was.presets[i].name = was.activePresetName[1]
                 /\ filters = was.presets[i].filters
                 /\ sortKey = was.presets[i].sortKey
                 /\ sortDirection = was.presets[i].sortDirection
                 /\ activePresetName = was.activePresetName
          ELSE /\ filters = was.filters
               /\ sortKey = was.sortKey
               /\ sortDirection = was.sortDirection
               /\ activePresetName = <<>>

\* restarted with an active preset whose filters the user had changed
C15_Witness ==
  /\ Restarted
  /\ beforeClose[1].activePresetName /= <<>>
  /\ filters /= beforeClose[1].filters

\* the number of pages the table shows for the current filters (the sort
\* leaves the number of rows alone)
totalPages == CeilDiv(Len(filteredOrders(filters)), 10)

\* C16: while the page is open the current page number is at least 1 and at
\* most max(1, totalPages) of the currently filtered result.
C16_PageWithinResult ==
  Running => /\ 1 <= page
             /\ page <= (IF totalPages > 1 THEN totalPages ELSE 1)

=============================================================================
